---- MODULE Spec2Model ----
(***************************************************************************)
(* Appeal routing service: the embedding classifier                        *)
(* (HuggingFaceClassifier, task2/models.py), the POST /process_appeal      *)
(* endpoint that calls it (task03/main.py), the three remote-LLM backends  *)
(* (DeepSeekClassifier, QwenModel, YandexGPTModel) and the factory         *)
(* get_model.                                                              *)
(*                                                                         *)
(* Department names are abbreviated: "transport" stands for the catalog    *)
(* key of the transport department, and so on.  Similarity scores are      *)
(* integers in hundredths (30 is the source's 0.3, 100 is 1.0).            *)
(* The encoder, cosine_similarity and the upstream HTTP services are the   *)
(* environment: what they answer is an input of the action that calls      *)
(* them.                                                                   *)
(***************************************************************************)
EXTENDS Integers, Sequences, FiniteSets, TLC

VARIABLES
    last,        \* the last operation performed: its inputs, what it did, its outcome
    classifier,  \* main.py's module-level HuggingFaceClassifier instance
    frames       \* the local variables of each classify call in flight

vars == <<last, classifier, frames>>

\* The state of the calls in flight; the operations that run one call from
\* start to end leave it alone.
inflight == <<classifier, frames>>

-----------------------------------------------------------------------------
(* Values *)

\* Python's None.
None == "None"

\* `return v`
Return(v) == [kind |-> "return", value |-> v]

\* What str(e) shows of an error: its type and, for an HTTPError, the status.
Cause(error, status) == [error |-> error, status |-> status]

\* `raise HTTPException(status_code=status, detail=f"{prefix}: {str(e)}")`;
\* the formatted detail is kept as the pair <<prefix, cause>>.
HTTPException(status, prefix, cause) ==
    [kind |-> "raise", exc |-> "HTTPException", status |-> status,
     detail |-> <<prefix, cause>>]

\* An exception no handler of the operation catches.
Uncaught(cause) ==
    [kind |-> "raise", exc |-> cause.error, detail |-> <<"", cause>>]

Range(s) == {s[i] : i \in 1..Len(s)}

-----------------------------------------------------------------------------
(* task03/main.py: the catalog passed by the endpoint *)

DEPARTMENTS ==
    <<"transport", "culture", "health", "education", "ecology", "sport">>

\* Appeal.text: Field(..., min_length=10)
MinLength == 10

-----------------------------------------------------------------------------
(* task2/models.py: HuggingFaceClassifier *)

\* Keys of the dict literal department_descriptions, in insertion order.
department_descriptions ==
    <<"transport", "culture", "health", "education", "ecology", "sport">>

Catalog == Range(department_descriptions)

\* `if max_similarity < 0.3`
Threshold == 30

\* Scores cosine_similarity may give a department (hundredths).
Scores == {29, 30, 100}

Similarities == [Catalog -> Scores]

\* The texts classify hands to get_embedding, in call order: the input text,
\* then each description in dict order.
EmbedOrder == <<"text">> \o department_descriptions

EmbedKeys == Range(EmbedOrder)

\* Where the encoder raises during one classify call ("ok": nowhere).
FailPoints == {"ok"} \cup EmbedKeys

IndexOf(seq, x) == CHOOSE i \in 1..Len(seq) : seq[i] = x

\* get_embedding invocations of one classify call, in order: every text up
\* to and including the one the encoder raises on.  Nothing is kept from
\* one call to the next.
get_embedding_calls(failAt) ==
    IF failAt = "ok" THEN EmbedOrder
    ELSE SubSeq(EmbedOrder, 1, IndexOf(EmbedOrder, failAt))

\* max(similarities.values()): a left-to-right scan keeping the greatest
\* value seen.
RECURSIVE MaxValueFrom(_, _, _)
MaxValueFrom(sim, i, best) ==
    IF i > Len(department_descriptions) THEN best
    ELSE LET v == sim[department_descriptions[i]]
         IN  MaxValueFrom(sim, i + 1, IF v > best THEN v ELSE best)

max_similarity(sim) ==
    MaxValueFrom(sim, 2, sim[department_descriptions[1]])

\* max(similarities.items(), key=lambda x: x[1])[0]: the scan replaces the
\* running best only by an item with a strictly greater key.
RECURSIVE MaxItemFrom(_, _, _)
MaxItemFrom(sim, i, best) ==
    IF i > Len(department_descriptions) THEN best
    ELSE LET d == department_descriptions[i]
         IN  MaxItemFrom(sim, i + 1, IF sim[d] > sim[best] THEN d ELSE best)

\* Variant of the scan in which a later item of equal key replaces the best.
RECURSIVE LastMaxItemFrom(_, _, _)
LastMaxItemFrom(sim, i, best) ==
    IF i > Len(department_descriptions) THEN best
    ELSE LET d == department_descriptions[i]
         IN  LastMaxItemFrom(sim, i + 1, IF sim[d] >= sim[best] THEN d ELSE best)

\* Variant: among departments of equal score the last listed wins.
best_department_last(sim) ==
    LastMaxItemFrom(sim, 2, department_descriptions[1])

best_department(sim) ==
    MaxItemFrom(sim, 2, department_descriptions[1])

\* Variant: a score of exactly 0.3 counts as below the threshold.
below_threshold_inclusive(s) == s <= Threshold

\* `max_similarity < 0.3`
below_threshold(s) == s < Threshold

\* Variant: an encoder failure is swallowed and reported as None.
classify_swallowing(departments, sim, failAt) ==
    IF failAt # "ok" \/ below_threshold(max_similarity(sim)) THEN Return(None)
    ELSE Return(best_department(sim))

\* HuggingFaceClassifier.classify(text, departments).  The text enters only
\* through the encoder and cosine_similarity: `sim` is the similarity they
\* give each description, `failAt` where get_embedding raises.  The body
\* never reads `departments`.
HuggingFaceClassifier_classify(departments, sim, failAt) ==
    IF failAt # "ok"
    THEN HTTPException(500, "classification error", Cause("EncoderError", 0))
    ELSE IF below_threshold(max_similarity(sim)) THEN Return(None)
    ELSE Return(best_department(sim))

-----------------------------------------------------------------------------
(* task03/main.py: process_appeal *)

\* `not department`
Falsy(v) == v = None \/ v = ""

Response(status, detail) == [status |-> status, detail |-> detail]

Success(department) ==
    [status |-> 200,
     body |-> [status |-> "success", department |-> department,
               message |-> <<"routed to", department>>]]

\* Variant: a classifier failure is answered like an undecided appeal.
process_appeal_masking(result) ==
    IF result.kind = "raise" \/ Falsy(result.value)
    THEN Response(400, <<"no suitable department", Cause("", 0)>>)
    ELSE Success(result.value)

\* The handler body, given what classifier.classify(appeal.text, DEPARTMENTS)
\* did.
process_appeal(result) ==
    IF result.kind = "raise"
    THEN IF result.exc = "HTTPException"
         THEN \* except HTTPException: raise
              Response(result.status, result.detail)
         ELSE \* except Exception as e
              Response(500, <<"internal server error", result.detail[2]>>)
    ELSE IF Falsy(result.value)
    THEN \* the HTTPException(400) raised in the try block is re-raised
         Response(400, <<"no suitable department", Cause("", 0)>>)
    ELSE Success(result.value)

\* Field(..., min_length=10): the framework answers 422 without running the
\* handler.
ValidationError == Response(422, <<"validation error", Cause("text", 0)>>)

-----------------------------------------------------------------------------
(* Operations of the embedding service *)

\* Department lists a direct caller passes to classify.
DeptArgs == {<<"health", "transport">>, <<>>}

\* Lengths of Appeal.text.
TextLens == {9, 10}

\* HuggingFaceClassifier(): the attributes __init__ sets.  No method assigns
\* any of them afterwards.
HuggingFaceClassifier_init ==
    [model_name |-> "sberbank-ai/sbert_large_nlu_ru",
     tokenizer |-> "loaded", model |-> "loaded"]

\* Classify calls that may be in flight at once.
NumCalls == 2

Calls == 1..NumCalls

\* A call slot with no call in it.
Idle == [pc |-> "idle"]

Init ==
    /\ last = [op |-> "none"]
    /\ classifier = HuggingFaceClassifier_init
    /\ frames = [c \in Calls |-> Idle]

\* What the encoder and cosine_similarity answer during one classify call.
EncoderAnswers ==
    {[sim |-> s, failAt |-> "ok"] : s \in Similarities}
    \cup {[sim |-> [d \in Catalog |-> 0], failAt |-> f] :
             f \in FailPoints \ {"ok"}}

\* The record of a direct call classifier.classify(text, departments).
ClassifyCall(departments, a) ==
    [op |-> "classify", called |-> TRUE,
     departments |-> departments, sim |-> a.sim, failAt |-> a.failAt,
     embedded |-> get_embedding_calls(a.failAt),
     result |-> HuggingFaceClassifier_classify(departments, a.sim, a.failAt)]

ClassifyCalls ==
    {ClassifyCall(departments, a) : departments \in DeptArgs, a \in EncoderAnswers}

\* A direct call classifier.classify(text, departments), for any departments
\* of DeptArgs and any answer of the encoder.
Classify == last' \in ClassifyCalls /\ UNCHANGED inflight

\* Variant: the body is not validated, the handler runs for any text length.
ProcessAppealCall_unvalidated(textLen, a) ==
    LET result == HuggingFaceClassifier_classify(DEPARTMENTS, a.sim, a.failAt)
    IN  [op |-> "process_appeal", called |-> TRUE, textLen |-> textLen,
         departments |-> DEPARTMENTS, sim |-> a.sim, failAt |-> a.failAt,
         embedded |-> get_embedding_calls(a.failAt),
         result |-> result,
         response |-> process_appeal(result)]

\* The record of POST /process_appeal with a text of length textLen.
ProcessAppealCall(textLen, a) ==
    IF textLen < MinLength
    THEN [op |-> "process_appeal", called |-> FALSE, textLen |-> textLen,
          embedded |-> <<>>, response |-> ValidationError]
    ELSE LET result == HuggingFaceClassifier_classify(DEPARTMENTS, a.sim, a.failAt)
         IN  [op |-> "process_appeal", called |-> TRUE, textLen |-> textLen,
              departments |-> DEPARTMENTS, sim |-> a.sim, failAt |-> a.failAt,
              embedded |-> get_embedding_calls(a.failAt),
              result |-> result,
              response |-> process_appeal(result)]

ProcessAppealCalls ==
    {ProcessAppealCall(textLen, a) : textLen \in TextLens, a \in EncoderAnswers}

\* POST /process_appeal, for any text length of TextLens and any answer of
\* the encoder.
ProcessAppeal == last' \in ProcessAppealCalls /\ UNCHANGED inflight

-----------------------------------------------------------------------------
(* task2/models.py: the remote-LLM backends *)

\* requests.post fails before any response arrives.
TransportErrors == {"ConnectionError", "Timeout"}

\* Status codes of the response requests.post returns.
Statuses == {200, 304, 404, 503}

\* Whitespace characters of a text; every other element of a text is a
\* word, a run of characters that are not whitespace.
Whitespace == {" ", "\n"}

Words == {"transport", "maybe"}

\* Longest answer text, in elements.
MaxAnswerLen == 3

\* Answer texts found at the end of the expected field path.
Answers ==
    UNION {[1..n -> Whitespace \cup Words] : n \in 0..MaxAnswerLen}

\* The response body.  path: "text" (the expected field path ends in a
\* string), "absent" (a key of the path is missing), "empty" (the list on
\* the path has no element 0), "wrongtype" (a value on the path cannot be
\* subscripted), "null" (the path ends in null).
Bodies ==
    {[json |-> FALSE, path |-> "absent", text |-> <<>>]}
    \cup {[json |-> TRUE, path |-> p, text |-> <<>>] :
             p \in {"absent", "empty", "wrongtype", "null"}}
    \cup {[json |-> TRUE, path |-> "text", text |-> t] : t \in Answers}

\* What the upstream does with the one request.
Upstream ==
    {[transport |-> e, status |-> 0, body |-> [json |-> FALSE, path |-> "absent", text |-> <<>>]] :
        e \in TransportErrors}
    \cup {[transport |-> "ok", status |-> st, body |-> b] :
             st \in Statuses, b \in Bodies}

\* str.strip(): leading and trailing whitespace removed.
RECURSIVE LStrip(_)
LStrip(t) ==
    IF t # <<>> /\ Head(t) \in Whitespace THEN LStrip(Tail(t)) ELSE t

RECURSIVE RStrip(_)
RStrip(t) ==
    IF t # <<>> /\ t[Len(t)] \in Whitespace
    THEN RStrip(SubSeq(t, 1, Len(t) - 1)) ELSE t

strip(t) == RStrip(LStrip(t))

\* Variant: only server errors raise.
raise_for_status_5xx_only(status) == 500 <= status /\ status < 600

\* Response.raise_for_status(): HTTPError for a 4xx or 5xx status.
raise_for_status(status) == 400 <= status /\ status < 600

\* The exception, if any, that the lines from requests.post to the return
\* raise ("none": the stripped text is returned).  hasList: the field path
\* indexes a list ([0]).  A body that is not JSON makes response.json()
\* raise requests' JSONDecodeError.
RequestError(up, hasList) ==
    IF up.transport # "ok" THEN Cause(up.transport, 0)
    ELSE IF raise_for_status(up.status) THEN Cause("HTTPError", up.status)
    ELSE IF ~up.body.json THEN Cause("JSONDecodeError", 0)
    ELSE IF up.body.path = "absent" THEN Cause("KeyError", 0)
    ELSE IF up.body.path = "empty"
         THEN Cause(IF hasList THEN "IndexError" ELSE "TypeError", 0)
    ELSE IF up.body.path = "wrongtype" THEN Cause("TypeError", 0)
    ELSE IF up.body.path = "null" THEN Cause("AttributeError", 0)
    ELSE Cause("none", 0)

\* requests.exceptions.RequestException and its subclasses.  JSONDecodeError
\* is one of them from requests 2.27 on, and a plain ValueError before:
\* `jsonIsRequestError` says which build runs.
RequestExceptions(jsonIsRequestError) ==
    TransportErrors \cup {"HTTPError"}
    \cup IF jsonIsRequestError THEN {"JSONDecodeError"} ELSE {}

\* Variant: a failed request is sent a second time before raising.
DeepSeekClassifier_classify_retrying(departments, up, jsonIsRequestError) ==
    LET e == RequestError(up, TRUE)
    IN  IF e.error = "none"
        THEN [sent |-> 1, result |-> Return(strip(up.body.text))]
        ELSE [sent |-> 2,
              result |-> HTTPException(500, "DeepSeek API request error", e)]

\* DeepSeekClassifier.classify(text, departments): one requests.post, then
\* result["choices"][0]["message"]["content"].strip().
DeepSeekClassifier_classify(departments, up, jsonIsRequestError) ==
    LET e == RequestError(up, TRUE)
    IN  [sent |-> 1,
         result |->
            IF e.error = "none" THEN Return(strip(up.body.text))
            ELSE IF e.error \in RequestExceptions(jsonIsRequestError)
            THEN HTTPException(500, "DeepSeek API request error", e)
            ELSE IF e.error \in {"KeyError", "IndexError"}
            THEN HTTPException(500, "DeepSeek response processing error", e)
            ELSE Uncaught(e)]

\* Variant: an answer that names no department of the list is refused.
QwenModel_classify_validating(departments, up) ==
    LET e == RequestError(up, FALSE)
        answer == strip(up.body.text)
    IN  [sent |-> 1,
         result |->
            IF e.error # "none" THEN HTTPException(500, "Qwen error", e)
            ELSE IF \E d \in Range(departments) : answer = <<d>>
            THEN Return(answer)
            ELSE HTTPException(500, "Qwen error", Cause("ValueError", 0))]

\* QwenModel.classify(text, departments): one requests.post, then
\* result["output"]["text"].strip(); `except Exception` catches everything.
QwenModel_classify(departments, up) ==
    LET e == RequestError(up, FALSE)
    IN  [sent |-> 1,
         result |->
            IF e.error = "none" THEN Return(strip(up.body.text))
            ELSE HTTPException(500, "Qwen error", e)]

\* YandexGPTModel.classify(text, departments): one requests.post, then
\* result["result"]["alternatives"][0]["message"]["text"].strip();
\* `except Exception` catches everything.
YandexGPTModel_classify(departments, up) ==
    LET e == RequestError(up, TRUE)
    IN  [sent |-> 1,
         result |->
            IF e.error = "none" THEN Return(strip(up.body.text))
            ELSE HTTPException(500, "YandexGPT error", e)]

\* Keys of the dict `models` of get_model.
models == {"deepseek", "qwen", "yandexgpt"}

ModelClass(model_name) ==
    CASE model_name = "deepseek"  -> "DeepSeekClassifier"
      [] model_name = "qwen"      -> "QwenModel"
      [] model_name = "yandexgpt" -> "YandexGPTModel"

\* Variant: the dict lacks the yandexgpt entry.
get_model_without_yandexgpt(model_name, api_key) ==
    IF model_name \notin models \ {"yandexgpt"}
    THEN [sent |-> 0, embedded |-> <<>>,
          result |-> Uncaught(Cause("ValueError", 0))]
    ELSE [sent |-> 0, embedded |-> <<>>,
          result |-> Return([class |-> ModelClass(model_name), api_key |-> api_key])]

\* get_model(model_name, api_key): the constructors only store the key.
get_model(model_name, api_key) ==
    IF model_name \notin models
    THEN [sent |-> 0, embedded |-> <<>>,
          result |-> Uncaught(Cause("ValueError", 0))]
    ELSE [sent |-> 0, embedded |-> <<>>,
          result |-> Return([class |-> ModelClass(model_name), api_key |-> api_key])]

-----------------------------------------------------------------------------
(* Operations of the remote backends and of the factory *)

\* Names a caller asks get_model for.
ModelNames == {"embedding", "deepseek", "qwen", "yandexgpt", "gigachat"}

ApiKeys == {None, "key"}

RemoteCall(backend, departments, up, e) ==
    [op |-> "remote", backend |-> backend, departments |-> departments,
     upstream |-> up, sent |-> e.sent, embedded |-> <<>>, result |-> e.result]

DeepSeekCalls ==
    {RemoteCall("deepseek", DEPARTMENTS, up,
                DeepSeekClassifier_classify(DEPARTMENTS, up, jsonIsRequestError)) :
        up \in Upstream, jsonIsRequestError \in BOOLEAN}

\* DeepSeekClassifier.classify, for any behaviour of the upstream.
DeepSeek == last' \in DeepSeekCalls /\ UNCHANGED inflight

\* The Qwen field path holds no list.
QwenCalls ==
    {RemoteCall("qwen", DEPARTMENTS, up, QwenModel_classify(DEPARTMENTS, up)) :
        up \in {u \in Upstream : u.body.path # "empty"}}

\* QwenModel.classify, for any behaviour of the upstream.
Qwen == last' \in QwenCalls /\ UNCHANGED inflight

YandexGPTCalls ==
    {RemoteCall("yandexgpt", DEPARTMENTS, up,
                YandexGPTModel_classify(DEPARTMENTS, up)) : up \in Upstream}

\* YandexGPTModel.classify, for any behaviour of the upstream.
YandexGPT == last' \in YandexGPTCalls /\ UNCHANGED inflight

GetModelCall(model_name, api_key) ==
    LET e == get_model(model_name, api_key)
    IN  [op |-> "get_model", model_name |-> model_name, api_key |-> api_key,
         sent |-> e.sent, embedded |-> e.embedded, result |-> e.result]

GetModelCalls ==
    {GetModelCall(model_name, api_key) :
        model_name \in ModelNames, api_key \in ApiKeys}

\* get_model, for any name of ModelNames.
GetModel == last' \in GetModelCalls /\ UNCHANGED inflight

Next ==
    \/ Classify
    \/ ProcessAppeal
    \/ DeepSeek
    \/ Qwen
    \/ YandexGPT
    \/ GetModel

Spec == Init /\ [][Next]_vars

-----------------------------------------------------------------------------
(* Classify calls in flight at once *)

\* Each POST /process_appeal in flight is a frame of local variables: its
\* call classifier.classify(appeal.text, DEPARTMENTS) advances one statement
\* at a time, and the steps of different requests interleave in any order,
\* which covers any server scheduling of the handler.

\* The similarity profile of an appeal text: `top` score `score`, every other
\* department 0.29.
Profile(top, score) == [d \in Catalog |-> IF d \in top THEN score ELSE 29]

\* What the encoder and cosine_similarity answer for the texts of the calls
\* in flight: one text below the threshold, one with a tie, one exactly at the
\* threshold, and two on which the encoder raises (at the text, at a description).
InflightAnswers ==
    {a \in EncoderAnswers :
        \/ a.failAt \in {"text", "health"}
        \/ /\ a.failAt = "ok"
           /\ a.sim \in {Profile({}, 29),
                          Profile({"transport", "health"}, 100),
                          Profile({"sport"}, 30)}}

\* Another call is between its first statement and its return.
OtherRunning(c) ==
    \E o \in Calls \ {c} : frames[o].pc \notin {"idle", "done", "responded"}

\* Call c takes a step to frame f; `interleaved` records whether any of its
\* steps was taken while another call was running.
Step(c, f) ==
    /\ frames' = [frames EXCEPT ![c] =
                     [f EXCEPT !.interleaved = @ \/ OtherRunning(c)]]
    /\ UNCHANGED <<last, classifier>>

\* The `except Exception` handler of classify.
Raised(f) ==
    [f EXCEPT !.pc = "done",
              !.result = HTTPException(500, "classification error",
                                       Cause("EncoderError", 0))]

\* self.get_embedding(text): the vector is a function of the text and of the
\* model, which is only read.  A text's vector is written as the similarity
\* profile it has with the descriptions, a description's vector as its key.
get_embedding(self, text) == text

\* cosine_similarity(text_embedding, dept_embedding)[0][0]
cosine_similarity(text_embedding, dept_embedding) ==
    text_embedding[dept_embedding]

\* process_appeal enters classifier.classify(appeal.text, DEPARTMENTS): the
\* frame holds its arguments.
Enter(c) ==
    /\ frames[c].pc = "idle"
    /\ \E a \in InflightAnswers :
          Step(c, [pc |-> "text_embedding",
                   departments |-> DEPARTMENTS,
                   text |-> a.sim, failAt |-> a.failAt,
                   text_embedding |-> None,
                   department_embeddings |-> <<>>,
                   similarities |-> None,
                   result |-> None, response |-> None,
                   interleaved |-> FALSE])

\* text_embedding = self.get_embedding(text)
EmbedText(c) ==
    /\ frames[c].pc = "text_embedding"
    /\ LET f == frames[c]
       IN  IF f.failAt = "text" THEN Step(c, Raised(f))
           ELSE Step(c, [f EXCEPT !.pc = "department_embeddings",
                                  !.text_embedding =
                                      get_embedding(classifier, f.text)])

\* One item of the comprehension that builds department_embeddings: the next
\* description in dict order is embedded and stored in the call's own dict
\* (a sequence of <<department, vector>> in insertion order).
EmbedDescription(c) ==
    /\ frames[c].pc = "department_embeddings"
    /\ LET f == frames[c]
           dept == department_descriptions[Len(f.department_embeddings) + 1]
           dict == Append(f.department_embeddings,
                          <<dept, get_embedding(classifier, dept)>>)
       IN  IF f.failAt = dept THEN Step(c, Raised(f))
           ELSE Step(c, [f EXCEPT
                    !.department_embeddings = dict,
                    !.pc = IF Len(dict) = Len(department_descriptions)
                           THEN "similarities" ELSE "department_embeddings"])

\* Variant: the text vector is read from a slot shared by the calls in
\* flight, which holds the vector of the lowest-numbered running call.
similarities_shared_text(c) ==
    LET o == CHOOSE o \in Calls :
                 /\ frames[o].pc \in {"department_embeddings", "similarities"}
                 /\ \A q \in Calls :
                       frames[q].pc \in {"department_embeddings", "similarities"}
                          => o <= q
    IN  [d \in Catalog |->
            cosine_similarity(frames[o].text_embedding,
                              get_embedding(classifier, d))]

\* The dict comprehension `similarities`, over the call's own
\* text_embedding and department_embeddings.
similarities(c) ==
    LET f == frames[c]
    IN  [d \in Catalog |->
            LET i == CHOOSE i \in 1..Len(f.department_embeddings) :
                         f.department_embeddings[i][1] = d
            IN  cosine_similarity(f.text_embedding,
                                  f.department_embeddings[i][2])]

ComputeSimilarities(c) ==
    /\ frames[c].pc = "similarities"
    /\ Step(c, [frames[c] EXCEPT !.pc = "decide",
                                 !.similarities = similarities(c)])

\* max_similarity, the threshold test and the return; for a request, the
\* handler then builds its response.
Decide(c) ==
    /\ frames[c].pc = "decide"
    /\ LET f == frames[c]
           result == IF below_threshold(max_similarity(f.similarities))
                     THEN Return(None)
                     ELSE Return(best_department(f.similarities))
       IN  Step(c, [f EXCEPT !.pc = "done", !.result = result])

\* process_appeal builds its response from the outcome of classify.
Respond(c) ==
    /\ frames[c].pc = "done"
    /\ LET f == frames[c]
       IN  Step(c, [f EXCEPT !.pc = "responded",
                             !.response = process_appeal(f.result)])

\* The request is answered and its frame is gone.
Leave(c) ==
    /\ frames[c].pc = "responded"
    /\ frames' = [frames EXCEPT ![c] = Idle]
    /\ UNCHANGED <<last, classifier>>

NextConcurrent ==
    \E c \in Calls :
        \/ Enter(c)
        \/ EmbedText(c)
        \/ EmbedDescription(c)
        \/ ComputeSimilarities(c)
        \/ Decide(c)
        \/ Respond(c)
        \/ Leave(c)

SpecConcurrent == Init /\ [][NextConcurrent]_vars

-----------------------------------------------------------------------------
(* Properties of the embedding classifier and of the endpoint *)

\* The last operation ran HuggingFaceClassifier.classify, directly or from
\* the endpoint.
EmbeddingCall ==
    last.op \in {"classify", "process_appeal"} /\ last.called

Decided(result) == result.kind = "return" /\ result.value # None

\* The greatest score of an assignment.
MaxScore(sim) == CHOOSE m \in Scores :
    (\E d \in Catalog : sim[d] = m) /\ (\A d \in Catalog : sim[d] <= m)

\* Position of a department in the catalog's iteration order.
CatalogIndex(d) == IndexOf(department_descriptions, d)

\* C1: whenever the embedding classifier returns a department, that
\* department is an element of the departmentNames passed into the same call.
C1_DecidedInDepartmentNames ==
    (EmbeddingCall /\ Decided(last.result))
        => last.result.value \in Range(last.departments)

\* C2: with every description scored, classify returns None if and only if
\* the maximum score is strictly below 0.3, and otherwise returns a department
\* whose score is the maximum (so a maximum of exactly 0.3, or of 1.0, is
\* decided).
C2_UndecidedIffBelowThreshold ==
    (EmbeddingCall /\ last.failAt = "ok") =>
        LET m == MaxScore(last.sim)
        IN  /\ (last.result = Return(None)) <=> (m < 30)
            /\ (m >= 30) =>
                  /\ Decided(last.result)
                  /\ last.result.value \in Catalog
                  /\ last.sim[last.result.value] = m

\* A call whose maximum score is exactly 0.3 returned a department.
C2_Witness ==
    /\ EmbeddingCall /\ last.failAt = "ok"
    /\ MaxScore(last.sim) = 30
    /\ Decided(last.result)

\* C3: when two or more departments share the maximum score and it is at
\* least 0.3, classify returns the one listed first in the catalog's
\* iteration order; the result is thereby a function of the scores alone, so
\* calls with identical inputs return the same department.
C3_TieFirstListed ==
    (/\ EmbeddingCall /\ last.failAt = "ok"
     /\ MaxScore(last.sim) >= 30
     /\ Cardinality({d \in Catalog : last.sim[d] = MaxScore(last.sim)}) >= 2)
    => /\ Decided(last.result)
       /\ last.result.value \in Catalog
       /\ last.sim[last.result.value] = MaxScore(last.sim)
       /\ \A d \in Catalog :
             last.sim[d] = MaxScore(last.sim)
                => CatalogIndex(last.result.value) <= CatalogIndex(d)

\* Three departments tie at the maximum, none of them the first of the
\* catalog, and the first of the three was returned.
C3_Witness ==
    /\ EmbeddingCall /\ last.failAt = "ok"
    /\ {d \in Catalog : last.sim[d] = 100} = {"culture", "ecology", "sport"}
    /\ last.result = Return("culture")

\* The descriptions a call got an embedding for.
DescriptionsEmbedded(call) ==
    {d \in Catalog : d \in Range(call.embedded) /\ d # call.failAt}

\* C4: over any sequence of classify calls, a description that an earlier
\* call got an embedding for is not handed to the encoder again: the next
\* call embeds only what is not cached yet.
C4_DescriptionsEmbeddedOnce ==
    [][(EmbeddingCall /\ EmbeddingCall')
          => \A d \in DescriptionsEmbedded(last) :
                d \notin Range(last'.embedded)]_vars

\* C5: when the encoder fails during a classify call, classify raises and
\* returns neither None nor a department; at the endpoint the failure is an
\* HTTP 500, while the undecided outcome is an HTTP 400.
C5_EmbeddingFailureRaises ==
    /\ (EmbeddingCall /\ last.failAt # "ok") =>
          /\ last.result.kind = "raise"
          /\ last.op = "process_appeal" => last.response.status = 500
    /\ (EmbeddingCall /\ last.op = "process_appeal" /\ last.result = Return(None))
          => last.response.status = 400

\* The encoder failed on a department description during a request and the
\* endpoint answered 500.
C5_Witness ==
    /\ last.op = "process_appeal" /\ last.called
    /\ last.failAt = "health"
    /\ last.result.kind = "raise"
    /\ last.response.status = 500

\* C10: POST /process_appeal with a valid body maps the classifier's outcome
\* to one response: a department d to a success response naming d, None to
\* HTTP 400, and a raised failure (an HTTPException with status 500, or any
\* other exception) to HTTP 500 with the error in detail.
C10_ResponseMapping ==
    /\ (last.op = "process_appeal" /\ last.called) =>
          /\ Decided(last.result) =>
                /\ last.response.status = 200
                /\ last.response.body.status = "success"
                /\ last.response.body.department = last.result.value
          /\ last.result = Return(None) => last.response.status = 400
          /\ last.result.kind = "raise" =>
                /\ last.response.status = 500
                /\ last.response.detail = last.result.detail
    /\ \A e \in {"ValueError", "RuntimeError"} :
          /\ process_appeal(Uncaught(Cause(e, 0))).status = 500
          /\ process_appeal(Uncaught(Cause(e, 0))).detail[2] = Cause(e, 0)

\* A valid request was classified and the success response names the
\* department.
C10_Witness ==
    /\ last.op = "process_appeal" /\ last.called
    /\ last.result = Return("sport")
    /\ last.response.status = 200
    /\ last.response.body.department = "sport"

ShortTextPosted ==
    last.op = "process_appeal" /\ last.textLen < MinLength

\* C11: POST /process_appeal with a text shorter than 10 characters is
\* rejected with HTTP 400 before the classifier is reached: classify is not
\* invoked and nothing is embedded.
C11_ShortTextRejected400 ==
    ShortTextPosted =>
        /\ last.response.status = 400
        /\ ~last.called
        /\ last.embedded = <<>>

\* C11 as amended: POST /process_appeal with a text shorter than 10
\* characters is rejected with HTTP 422, the validation error of the request
\* body, before the classifier is reached: classify is not invoked and
\* nothing is embedded. A text of 10 characters reaches the classifier.
C11_ShortTextRejected422 ==
    /\ ShortTextPosted =>
          /\ last.response.status = 422
          /\ ~last.called
          /\ last.embedded = <<>>
    /\ (last.op = "process_appeal" /\ last.textLen >= MinLength) => last.called

\* A text of 9 characters was posted and answered 422 without a classify
\* call.
C11_Witness ==
    /\ ShortTextPosted
    /\ last.textLen = 9
    /\ last.response.status = 422
    /\ ~last.called

-----------------------------------------------------------------------------
(* Properties of the remote backends and of the factory *)

RemoteCallDone == last.op = "remote"

\* The request got no response, or a response that is not JSON or lacks the
\* answer text.
TransportOrParseFailure(up) ==
    \/ up.transport # "ok"
    \/ ~up.body.json
    \/ up.body.path # "text"

\* The detail prefix a backend gives a transport failure.
TransportFailurePrefix(backend) ==
    LET up == CHOOSE u \in Upstream : u.transport = "Timeout"
    IN  CASE backend = "deepseek" ->
               DeepSeekClassifier_classify(DEPARTMENTS, up, TRUE).result.detail[1]
          [] backend = "qwen" ->
               QwenModel_classify(DEPARTMENTS, up).result.detail[1]
          [] backend = "yandexgpt" ->
               YandexGPTModel_classify(DEPARTMENTS, up).result.detail[1]

RaisesRemoteError(result, cause) ==
    /\ result.kind = "raise"
    /\ result.exc = "HTTPException"
    /\ result.status = 500
    /\ result.detail[2] = cause

\* C6: on each backend, a transport failure or a non-2xx status makes
\* classify raise an error carrying the upstream detail; nothing is returned.
C6_NonSuccessRaises ==
    RemoteCallDone =>
        /\ last.upstream.transport # "ok" =>
              RaisesRemoteError(last.result, Cause(last.upstream.transport, 0))
        /\ (last.upstream.transport = "ok"
            /\ ~(200 <= last.upstream.status /\ last.upstream.status < 300)) =>
              RaisesRemoteError(last.result, Cause("HTTPError", last.upstream.status))

\* C6 as amended: on each backend, a transport failure or a 4xx or 5xx status
\* makes classify raise an error carrying the upstream detail; nothing is
\* returned.
C6_ErrorStatusRaises ==
    RemoteCallDone =>
        /\ last.upstream.transport # "ok" =>
              RaisesRemoteError(last.result, Cause(last.upstream.transport, 0))
        /\ (last.upstream.transport = "ok"
            /\ 400 <= last.upstream.status /\ last.upstream.status < 600) =>
              RaisesRemoteError(last.result, Cause("HTTPError", last.upstream.status))

\* The upstream answered 404 with a well-formed body and Qwen raised.
C6_Witness ==
    /\ RemoteCallDone /\ last.backend = "qwen"
    /\ last.upstream.status = 404
    /\ last.upstream.body.path = "text"
    /\ last.result.kind = "raise"

\* C7: on each backend, a 2xx response whose parsed body lacks the expected
\* field path makes classify fail with an error of a kind the caller can tell
\* apart from the one raised on a transport or non-2xx failure.
C7_MalformedDistinct ==
    (/\ RemoteCallDone
     /\ last.upstream.transport = "ok"
     /\ 200 <= last.upstream.status /\ last.upstream.status < 300
     /\ last.upstream.body.json
     /\ last.upstream.body.path \in {"absent", "empty"})
    => /\ last.result.kind = "raise"
       /\ last.result.exc = "HTTPException"
       /\ last.result.detail[1] # TransportFailurePrefix(last.backend)

\* C8: every classify call on a remote backend sends exactly one request; a
\* transport or parse failure is raised by that same call, not retried and
\* not masked by a result.
C8_OneRequestPerCall ==
    RemoteCallDone =>
        /\ last.sent = 1
        /\ TransportOrParseFailure(last.upstream) => last.result.kind = "raise"

\* DeepSeek got a 200 response that is not JSON, sent nothing more and
\* raised.
C8_Witness ==
    /\ RemoteCallDone /\ last.backend = "deepseek"
    /\ last.upstream.status = 200 /\ ~last.upstream.body.json
    /\ last.sent = 1
    /\ last.result.kind = "raise"

FactoryCall == last.op = "get_model"

\* C9: get_model fails if and only if the kind is outside {embedding,
\* deepseek, qwen, yandexgpt}, returns the backend otherwise, and performs no
\* classification.
C9_FactoryFourKinds ==
    FactoryCall =>
        /\ last.result.kind = "raise"
              <=> last.model_name \notin {"embedding", "deepseek", "qwen", "yandexgpt"}
        /\ last.sent = 0 /\ last.embedded = <<>>

\* C9 as amended: get_model fails (ValueError) if and only if the name is
\* outside {deepseek, qwen, yandexgpt}, "embedding" included; for each of the
\* three names it returns that backend holding the key; it sends no request
\* and embeds nothing.
C9_FactoryThreeKinds ==
    FactoryCall =>
        /\ last.result.kind = "raise"
              <=> last.model_name \notin {"deepseek", "qwen", "yandexgpt"}
        /\ last.result.kind = "raise" => last.result.exc = "ValueError"
        /\ \A pair \in {<<"deepseek", "DeepSeekClassifier">>,
                        <<"qwen", "QwenModel">>,
                        <<"yandexgpt", "YandexGPTModel">>} :
              last.model_name = pair[1] =>
                 last.result = Return([class |-> pair[2], api_key |-> last.api_key])
        /\ last.sent = 0 /\ last.embedded = <<>>

\* get_model was asked for the embedding backend and raised.
C9_Witness ==
    /\ FactoryCall
    /\ last.model_name = "embedding"
    /\ last.result.kind = "raise"

\* The upstream answered 2xx with a JSON body whose field path ends in a
\* string.
AnswerPresent ==
    /\ RemoteCallDone
    /\ last.upstream.transport = "ok"
    /\ 200 <= last.upstream.status /\ last.upstream.status < 300
    /\ last.upstream.body.json
    /\ last.upstream.body.path = "text"

\* r is t without its leading and trailing whitespace, the rest unchanged.
IsStripped(t, r) ==
    /\ \E i \in 1..(Len(t) + 1), j \in 0..Len(t) :
          /\ r = SubSeq(t, i, j)
          /\ \A k \in 1..Len(t) : (k < i \/ k > j) => t[k] \in Whitespace
    /\ r # <<>> => (r[1] \notin Whitespace /\ r[Len(r)] \notin Whitespace)

\* The texts that name a department of the list.
DepartmentTexts(departments) == {<<d>> : d \in Range(departments)}

\* C13: on a 2xx response with the expected field present, each remote
\* backend returns the upstream answer with surrounding whitespace stripped
\* and otherwise unchanged, whether or not it names a department of the list.
C13_AnswerReturnedUnvalidated ==
    AnswerPresent =>
        /\ last.result.kind = "return"
        /\ IsStripped(last.upstream.body.text, last.result.value)

\* Qwen got 200 with the answer " maybe\n" and returned "maybe", which is no
\* department of the list.
C13_Witness ==
    /\ AnswerPresent /\ last.backend = "qwen"
    /\ last.upstream.body.text = <<" ", "maybe", "\n">>
    /\ last.result = Return(<<"maybe">>)
    /\ last.result.value \notin DepartmentTexts(last.departments)

\* DeepSeek got 200 with a whitespace-only answer and returned the empty
\* string.
C13_WitnessEmpty ==
    /\ AnswerPresent /\ last.backend = "deepseek"
    /\ last.upstream.body.text = <<" ", "\n">>
    /\ last.result = Return(<<>>)

\* C14: every classify call on a remote backend either returns a string or
\* raises an HTTPException with status 500, whatever the upstream does, a
\* 2xx body whose answer path holds a value of the wrong shape included; no
\* other exception escapes to the caller.
C14_OnlyHTTPException500 ==
    RemoteCallDone =>
        \/ last.result.kind = "return"
        \/ /\ last.result.kind = "raise"
           /\ last.result.exc = "HTTPException"
           /\ last.result.status = 500

-----------------------------------------------------------------------------
(* Properties of classify calls in flight at once *)

\* Call c has returned from classify.
Returned(c) == frames[c].pc \in {"done", "responded"}

\* C12: under every interleaving of classify calls and of the requests that
\* trigger them, each call returns what it returns when run alone, and each
\* request answers what it answers alone; no step writes the shared
\* classifier, and the vector two calls store for one description is the
\* same.
C12_CallsIndependent ==
    /\ classifier = HuggingFaceClassifier_init
    /\ \A c \in Calls :
          /\ Returned(c) =>
                frames[c].result =
                    HuggingFaceClassifier_classify(frames[c].departments,
                                                   frames[c].text,
                                                   frames[c].failAt)
          /\ frames[c].pc = "responded" =>
                frames[c].response =
                    ProcessAppealCall(MinLength,
                                      [sim |-> frames[c].text,
                                       failAt |-> frames[c].failAt]).response
    /\ \A c, o \in Calls :
          (frames[c].pc # "idle" /\ frames[o].pc # "idle") =>
             \A i \in 1..Len(frames[c].department_embeddings) :
                i <= Len(frames[o].department_embeddings) =>
                   frames[c].department_embeddings[i] =
                      frames[o].department_embeddings[i]

\* Two requests with different texts ran interleaved, and both calls
\* returned: one the first department of a tie, the other no department,
\* answered 400.
C12_Witness ==
    /\ Returned(1) /\ Returned(2)
    /\ frames[1].interleaved /\ frames[2].interleaved
    /\ frames[1].result = Return("transport")
    /\ frames[2].result = Return(None)
    /\ frames[2].pc = "responded"
    /\ frames[2].response.status = 400

====
